---- MODULE Spec2Model ----
(***************************************************************************)
(* git-diff-visualizer: GitService (the git subprocess layer), the sidebar *)
(* provider with its webview script, and the diff content provider.        *)
(*                                                                         *)
(* Text is a sequence of one-character strings, so that split, trim,       *)
(* startsWith and includes are computed character by character as the      *)
(* JavaScript runtime computes them.  A literal chunk of a message         *)
(* template is kept as one multi-character element.                        *)
(***************************************************************************)
EXTENDS Integers, Sequences, FiniteSets, TLC

VARIABLES
    child,           \* SpecRun: the subprocess run spawned: what it still emits
    stdout,          \* SpecRun: run's accumulator of the stdout data
    stderr,          \* SpecRun: run's accumulator of the stderr data
    promise,         \* SpecRun: the promise run returned
    outcomes,        \* SpecRun, history: the outcomes the caller has observed
    gitCall,         \* SpecGit: the GitService operation called, with its inputs
    gitResult,       \* SpecGit: the promise it returned, once settled
    workspaceFolder, \* whether vscode.workspace.workspaceFolders[0] exists
    repo,            \* how each git command of the sidebar ends in this workspace
    savedDefault,    \* workspaceState 'defaultBranch'
    toExt,           \* messages posted by the webview, not yet received
    toWeb,           \* messages posted to the webview, not yet received
    tasks,           \* the loadBranches / loadFiles calls suspended at an await
    latestSelect,    \* history: the latest loadFiles call a selectBranch made
    lastPostedBy,    \* history: who called the loadFiles that last posted setFiles
    atRefresh,       \* history: what the webview showed at the latest Refresh click
    currentFiles,    \* main.js
    currentBranch,   \* main.js
    currentDiffRef,  \* main.js
    allBranches,     \* main.js
    branchInput,     \* the value of the #branch-input element
    fileList,        \* what the #file-list element shows
    userActions,     \* how many times the user has acted on the branch input
    refreshes        \* how many times the user has clicked Refresh

runVars == <<child, stdout, stderr, promise, outcomes>>

gitVars == <<gitCall, gitResult>>

webviewVars ==
    <<currentFiles, currentBranch, currentDiffRef, allBranches, branchInput, fileList>>

userVars == <<userActions, refreshes>>

historyVars == <<latestSelect, lastPostedBy, atRefresh>>

sidebarVars ==
    <<workspaceFolder, repo, savedDefault, toExt, toWeb, tasks, historyVars,
      webviewVars, userVars>>

vars == <<runVars, gitVars, sidebarVars>>

----------------------------------------------------------------------------
(* Bounds *)

MaxLines == 3
MaxChunks == 2
MaxUserActions == 1
MaxRefreshes == 1
MaxInFlight == 2

----------------------------------------------------------------------------
(* JavaScript values and string primitives *)

TAB == "\t"
NL == "\n"

\* the JavaScript value undefined: no text has a multi-character element
Undefined == <<"undefined">>

Whitespace == {" ", TAB, NL}

RECURSIVE TrimStart(_)
TrimStart(s) ==
    IF s = <<>> THEN s
    ELSE IF Head(s) \in Whitespace THEN TrimStart(Tail(s)) ELSE s

RECURSIVE TrimEnd(_)
TrimEnd(s) ==
    IF s = <<>> THEN s
    ELSE IF s[Len(s)] \in Whitespace THEN TrimEnd(SubSeq(s, 1, Len(s) - 1)) ELSE s

\* String.prototype.trim
Trim(s) == TrimEnd(TrimStart(s))

RECURSIVE SplitFrom(_, _, _, _)
SplitFrom(s, sep, i, cur) ==
    IF i > Len(s) THEN <<cur>>
    ELSE IF s[i] = sep THEN <<cur>> \o SplitFrom(s, sep, i + 1, <<>>)
    ELSE SplitFrom(s, sep, i + 1, Append(cur, s[i]))

\* String.prototype.split with a one-character separator
Split(s, sep) == SplitFrom(s, sep, 1, <<>>)

\* String.prototype.startsWith
StartsWith(s, prefix) ==
    /\ Len(s) >= Len(prefix)
    /\ SubSeq(s, 1, Len(prefix)) = prefix

\* parts[i] with JavaScript's zero-based index: undefined past the end
At(parts, i) == IF i + 1 <= Len(parts) THEN parts[i + 1] ELSE Undefined

Fulfilled(v) == [state |-> "fulfilled", value |-> v]
Rejected(e) == [state |-> "rejected", reason |-> e]

Error(message) == [name |-> "Error", message |-> message]

\* what path.join, path.basename and path.dirname throw for a non-string
PathTypeError ==
    [name |-> "TypeError",
     message |-> <<"The \"path\" argument must be of type string. Received undefined">>]

LastSlash(p) ==
    LET S == {i \in 1..Len(p) : p[i] = "/"}
    IN IF S = {} THEN 0 ELSE CHOOSE i \in S : \A j \in S : j <= i

\* path.join(repoRoot, filePath) for a relative path without . or .. segments
PathJoin(root, p) == IF p = <<>> THEN root ELSE root \o <<"/">> \o p

\* path.basename
PathBasename(p) == SubSeq(p, LastSlash(p) + 1, Len(p))

\* path.dirname
PathDirname(p) ==
    IF LastSlash(p) = 0 THEN <<".">>
    ELSE IF LastSlash(p) = 1 THEN <<"/">>
    ELSE SubSeq(p, 1, LastSlash(p) - 1)

----------------------------------------------------------------------------
(* GitService *)

\* mutant: the error message is built from stdout whatever stderr holds
run_IgnoresStderr(proc) ==
    IF proc.spawnError THEN Rejected(Error(<<"spawn git ENOENT">>))
    ELSE IF proc.code = 0 THEN Fulfilled(Trim(proc.stdout))
    ELSE Rejected(Error(<<"Git command failed: ">> \o proc.stdout))

\* GitService.run on a subprocess that ends as proc says: spawnError is the
\* child's 'error' event, otherwise 'close' arrives with the exit code after
\* all of stdout and stderr has been received
run(proc) ==
    IF proc.spawnError THEN Rejected(Error(<<"spawn git ENOENT">>))
    ELSE IF proc.code = 0 THEN Fulfilled(Trim(proc.stdout))
    ELSE Rejected(Error(<<"Git command failed: ">> \o
                        (IF proc.stderr # <<>> THEN proc.stderr ELSE proc.stdout)))

\* GitService.getRepoRoot
getRepoRoot(proc) == run(proc)

\* the error getMergeBase throws from its catch block
MergeBaseError(target) ==
    Error(<<"Could not determine common ancestor with \"">> \o target \o <<"\".">>)

\* mutant: the message names the source ref instead of the target
getMergeBase_NamesSource(target, source, proc) ==
    LET r == run(proc)
    IN IF r.state = "fulfilled" THEN r ELSE Rejected(MergeBaseError(source))

\* GitService.getMergeBase(cwd, target, source)
getMergeBase(target, source, proc) ==
    LET r == run(proc)
    IN IF r.state = "fulfilled" THEN r ELSE Rejected(MergeBaseError(target))

\* mutant: a rename is recognised only when the status field is exactly R
FileInfoOf_ExactR(repoRoot, line) ==
    LET parts == Split(line, TAB)
        status == At(parts, 0)
        isRename == status = <<"R">>
        filePath == IF isRename THEN At(parts, 2) ELSE At(parts, 1)
        originalPath == IF isRename THEN At(parts, 1) ELSE Undefined
    IN IF filePath = Undefined THEN PathTypeError
       ELSE [status |-> status,
             filePath |-> filePath,
             originalPath |-> originalPath,
             absolutePath |-> PathJoin(repoRoot, filePath),
             fileName |-> PathBasename(filePath),
             directory |-> PathDirname(filePath)]

\* mutant: originalPath is taken from the second field for every status
FileInfoOf_AlwaysOriginal(repoRoot, line) ==
    LET parts == Split(line, TAB)
        status == At(parts, 0)
        isRename == StartsWith(status, <<"R">>)
        filePath == IF isRename THEN At(parts, 2) ELSE At(parts, 1)
    IN IF filePath = Undefined THEN PathTypeError
       ELSE [status |-> status,
             filePath |-> filePath,
             originalPath |-> At(parts, 1),
             absolutePath |-> PathJoin(repoRoot, filePath),
             fileName |-> PathBasename(filePath),
             directory |-> PathDirname(filePath)]

\* the callback getChangedFiles maps over the lines: the record, or the
\* TypeError path.join raises when filePath is undefined
FileInfoOf(repoRoot, line) ==
    LET parts == Split(line, TAB)
        status == At(parts, 0)
        isRename == StartsWith(status, <<"R">>)
        filePath == IF isRename THEN At(parts, 2) ELSE At(parts, 1)
        originalPath == IF isRename THEN At(parts, 1) ELSE Undefined
    IN IF filePath = Undefined THEN PathTypeError
       ELSE [status |-> status,
             filePath |-> filePath,
             originalPath |-> originalPath,
             absolutePath |-> PathJoin(repoRoot, filePath),
             fileName |-> PathBasename(filePath),
             directory |-> PathDirname(filePath)]

\* mutant: the lines come out in reverse order
NonBlankLines_Reversed(output) ==
    LET ls == SelectSeq(Split(output, NL), LAMBDA l : Trim(l) # <<>>)
    IN [i \in 1..Len(ls) |-> ls[Len(ls) + 1 - i]]

\* output.split('\n').filter(l => l.trim())
NonBlankLines(output) == SelectSeq(Split(output, NL), LAMBDA l : Trim(l) # <<>>)

\* output.split('\n').filter(...).map(...): the array, or the exception
ParseNameStatus(repoRoot, output) ==
    LET lines == NonBlankLines(output)
        files == [i \in 1..Len(lines) |-> FileInfoOf(repoRoot, lines[i])]
    IN IF \E i \in 1..Len(files) : files[i] = PathTypeError
       THEN Rejected(PathTypeError)
       ELSE Fulfilled(files)

\* mutant: a failed diff command is taken for "no changes"
getChangedFiles_SwallowsFailure(repoRoot, proc) ==
    LET output == run(proc)
    IN IF output.state = "rejected" \/ output.value = <<>> THEN Fulfilled(<<>>)
       ELSE ParseNameStatus(repoRoot, output.value)

\* GitService.getChangedFiles(repoRoot, ref)
getChangedFiles(repoRoot, proc) ==
    LET output == run(proc)
    IN IF output.state = "rejected" THEN output
       ELSE IF output.value = <<>> THEN Fulfilled(<<>>)
       ELSE ParseNameStatus(repoRoot, output.value)

\* mutant: no catch block, the failure of run propagates
getFileContent_Propagates(proc) == run(proc)

\* GitService.getFileContent(cwd, ref, relativePath)
getFileContent(proc) ==
    LET r == run(proc)
    IN IF r.state = "fulfilled" THEN r ELSE Fulfilled(<<>>)

\* URLSearchParams.get for a key the query does not hold
Null == <<"null">>

\* GitContentProvider.provideTextDocumentContent: ref and cwd are the
\* query's values
provideTextDocumentContent(ref, cwd, proc) ==
    IF ref \in {Null, <<>>} \/ cwd \in {Null, <<>>} THEN Fulfilled(<<>>)
    ELSE getFileContent(proc)

----------------------------------------------------------------------------
(* The inputs of the GitService operations *)

RepoRoot == <<"/", "r">>

\* paths as git prints them; the second has a directory and a space in its name
PathA == <<"a">>
PathB == <<"d", "/", " ", "b">>

DiffStatusFields == {<<"A">>, <<"D">>, <<"M">>, <<"R", "9">>, <<"R", "1", "0", "0">>, <<"C", "7">>}

\* the path fields that follow the status field of a line
DiffPathFields == {<<>>, <<PathA>>, <<PathA, PathB>>}

RECURSIVE JoinWith(_, _)
JoinWith(fields, sep) ==
    IF Len(fields) = 0 THEN <<>>
    ELSE IF Len(fields) = 1 THEN fields[1]
    ELSE fields[1] \o <<sep>> \o JoinWith(Tail(fields), sep)

\* a line of the name-status output as its tab-separated fields; the last
\* one is a blank line
DiffLines ==
    {<<s>> \o t : s \in DiffStatusFields, t \in DiffPathFields} \cup {<< <<" ">> >>}

\* what git writes: the fields of a line joined by tabs, every line ended by
\* a newline
RECURSIVE Emit(_)
Emit(lines) ==
    IF lines = <<>> THEN <<>>
    ELSE JoinWith(Head(lines), TAB) \o <<NL>> \o Emit(Tail(lines))

ErrText == <<"f", "a", "t", "a", "l">>
Commit == <<"c", "1">>
Content == <<"x", NL>>

Exited(code, out, err) ==
    [spawnError |-> FALSE, code |-> code, stdout |-> out, stderr |-> err]
SpawnFailed == [spawnError |-> TRUE, code |-> -1, stdout |-> <<>>, stderr |-> <<>>]

FailedProcs == {Exited(1, <<>>, ErrText), Exited(128, ErrText, <<>>), SpawnFailed}


Refs == {<<"m", "a", "i", "n">>, <<"d", "e", "v">>, <<" ", "x">>}

MergeBaseProcs ==
    {Exited(0, Commit \o <<NL>>, <<>>), Exited(0, <<>>, <<>>),
     Exited(0, Commit \o <<NL>>, ErrText)} \cup FailedProcs

ShowProcs ==
    {Exited(0, Content, <<>>), Exited(0, <<>>, <<>>)} \cup FailedProcs

\* no subprocess has been spawned
NoChild == [spawned |-> FALSE]

\* run has not been called
RunIdle ==
    /\ child = NoChild
    /\ stdout = <<>>
    /\ stderr = <<>>
    /\ promise = [state |-> "pending"]
    /\ outcomes = <<>>

\* no GitService operation has been called
CallIdle ==
    /\ gitCall = [op |-> "idle"]
    /\ gitResult = [state |-> "pending"]

GitIdle == RunIdle /\ CallIdle

----------------------------------------------------------------------------
(* DiffSidebarProvider and the webview script media/main.js *)

Main == <<"m", "a", "i", "n">>
Master == <<"m", "a", "s", "t", "e", "r">>
Dev == <<"d", "e", "v">>
HeadMarker == <<"H", "E", "A", "D">>

\* String.prototype.includes
Includes(s, sub) ==
    \E i \in 0..(Len(s) - Len(sub)) : SubSeq(s, i + 1, i + Len(sub)) = sub

\* Array.prototype.includes
ArrayIncludes(arr, x) == \E i \in 1..Len(arr) : arr[i] = x

LowerOf(c) ==
    CASE c = "H" -> "h" [] c = "E" -> "e" [] c = "A" -> "a" [] c = "D" -> "d"
      [] c = "M" -> "m" [] c = "R" -> "r" [] c = "C" -> "c" [] OTHER -> c

\* String.prototype.toLowerCase
ToLowerCase(s) == [i \in 1..Len(s) |-> LowerOf(s[i])]

RemoveAt(seq, i) == SubSeq(seq, 1, i - 1) \o SubSeq(seq, i + 1, Len(seq))

\* a value that an if or || takes for false: undefined or ''
Falsy(v) == v = Undefined \/ v = <<>>

\* mutant: only the entry that is exactly HEAD is left out
ParseBranches_ExactHead(output) ==
    LET trimmed == [i \in 1..Len(Split(output, NL)) |-> Trim(Split(output, NL)[i])]
    IN SelectSeq(trimmed, LAMBDA b : b # <<>> /\ b # HeadMarker)

\* branchesOutput.split('\n').map(b => b.trim()).filter(b => b !== '' && !b.includes('HEAD'))
ParseBranches(output) ==
    LET trimmed == [i \in 1..Len(Split(output, NL)) |-> Trim(Split(output, NL)[i])]
    IN SelectSeq(trimmed, LAMBDA b : b # <<>> /\ ~Includes(b, HeadMarker))

\* branches.find(b => b === 'main' || b === 'master')
FindPrimary(branches) ==
    LET S == {i \in 1..Len(branches) : branches[i] \in {Main, Master}}
    IN IF S = {} THEN Undefined ELSE branches[CHOOSE i \in S : \A j \in S : i <= j]

\* mutant: the saved default is used whether or not it is still in the list
ResolveDefault_KeepsSaved(saved, branches) ==
    IF Falsy(saved)
    THEN IF ~Falsy(FindPrimary(branches)) THEN FindPrimary(branches)
         ELSE At(branches, 0)
    ELSE saved

\* the default branch loadBranches resolves from the saved default
ResolveDefault(saved, branches) ==
    IF Falsy(saved) \/ ~ArrayIncludes(branches, saved)
    THEN IF ~Falsy(FindPrimary(branches)) THEN FindPrimary(branches)
         ELSE At(branches, 0)
    ELSE saved

\* the collation order of the characters that occur in branch names
Collation == <<"/", "a", "d", "e", "f", "g", "i", "m", "n", "o", "r", "s", "t", "v", "x">>

CharRank(c) ==
    IF \E i \in 1..Len(Collation) : Collation[i] = LowerOf(c)
    THEN CHOOSE i \in 1..Len(Collation) : Collation[i] = LowerOf(c)
    ELSE 0

\* String.prototype.localeCompare: negative, zero or positive
RECURSIVE LocaleCompare(_, _)
LocaleCompare(a, b) ==
    IF a = <<>> /\ b = <<>> THEN 0
    ELSE IF a = <<>> THEN -1
    ELSE IF b = <<>> THEN 1
    ELSE IF CharRank(Head(a)) # CharRank(Head(b))
         THEN CharRank(Head(a)) - CharRank(Head(b))
    ELSE LocaleCompare(Tail(a), Tail(b))

\* mutant: the default branch is compared like any other
CompareBranches_NoDefault(a, b, defaultBranch) == LocaleCompare(a, b)

\* the comparator loadBranches sorts with
CompareBranches(a, b, defaultBranch) ==
    IF a = defaultBranch THEN -1
    ELSE IF b = defaultBranch THEN 1
    ELSE LocaleCompare(a, b)

\* one step of the insertion sort Array.prototype.sort runs on a short
\* array: x goes after the last element that does not compare greater
RECURSIVE InsertSorted(_, _, _)
InsertSorted(sorted, x, defaultBranch) ==
    IF sorted = <<>> THEN <<x>>
    ELSE IF CompareBranches(sorted[Len(sorted)], x, defaultBranch) > 0
         THEN Append(InsertSorted(SubSeq(sorted, 1, Len(sorted) - 1), x, defaultBranch),
                     sorted[Len(sorted)])
    ELSE Append(sorted, x)

\* branches.sort(comparator)
RECURSIVE SortBranches(_, _)
SortBranches(branches, defaultBranch) ==
    IF branches = <<>> THEN <<>>
    ELSE InsertSorted(SortBranches(SubSeq(branches, 1, Len(branches) - 1), defaultBranch),
                      branches[Len(branches)], defaultBranch)

\* the callback loadFiles maps over the diff lines: the same text as the
\* one in GitService.getChangedFiles, without the early return on ''
LoadFilesParse(repoRoot, diffOutput) == ParseNameStatus(repoRoot, diffOutput)

\* the message of the console warning path of loadFiles
LoadFilesMergeBaseMessage(cleanTarget) ==
    <<"Could not determine common ancestor with \"">> \o cleanTarget
        \o <<"\". Ensure the branch exists and shares history.">>

\* the letter the webview shows for a record: file.status.charAt(0)
StatusLetter(status) == status[1]

\* what the user types into the branch input
TypedTexts == {Main, Dev}

\* the outcomes of the git subprocesses the sidebar starts
SidebarFailure == Exited(128, <<>>, ErrText)
MergeBaseFound == Exited(0, Commit \o <<NL>>, <<>>)
SidebarMergeBaseProcs == {MergeBaseFound, Exited(0, <<>>, <<>>), SidebarFailure}
DiffOneFile == Exited(0, Emit(<< <<<<"M">>, PathA>> >>), <<>>)
SidebarDiffProcs == {Exited(0, <<>>, <<>>), DiffOneFile, SidebarFailure}

\* a workspace outside any repository: every git command fails
NotARepository ==
    [revParse |-> SidebarFailure,
     branchList |-> SidebarFailure,
     showCurrent |-> SidebarFailure,
     mergeBase |-> [t \in TypedTexts |-> SidebarFailure],
     diff |-> SidebarFailure]

\* the workspaces: what each git command of the sidebar does there, the
\* repository staying as it is while the view is open
Repository(mb, d) ==
    [revParse |-> Exited(0, RepoRoot \o <<NL>>, <<>>),
     branchList |-> Exited(0, Emit(<< <<Dev>>, <<Main>>,
                                      <<<<"o", "/">> \o HeadMarker>> >>), <<>>),
     showCurrent |-> Exited(0, Dev \o <<NL>>, <<>>),
     mergeBase |-> mb,
     diff |-> d]

Repositories ==
    {Repository(mb, DiffOneFile) : mb \in [TypedTexts -> SidebarMergeBaseProcs]}
        \cup {Repository([t \in TypedTexts |-> MergeBaseFound], d) : d \in SidebarDiffProcs}
        \cup {NotARepository}

\* no Refresh click yet
NeverRefreshed == [quiet |-> FALSE, branch |-> <<>>, actions |-> 0]

\* a loadFiles call suspended at its first await; by tells who called it
\* ("select": the selectBranch handler, "auto": loadBranches) and latest
\* whether it is the latest call the selectBranch handler made
LoadFilesTask(targetBranch, by) ==
    [fn |-> "loadFiles", pc |-> "rev-parse", targetBranch |-> targetBranch,
     repoRoot |-> Undefined, cleanTarget |-> Undefined, mergeBase |-> Undefined,
     diffRef |-> Undefined, by |-> by, latest |-> by = "select"]

\* the suspended calls once a later selectBranch has been handled
Superseded(ts) ==
    [i \in 1..Len(ts) |->
        IF ts[i].fn = "loadFiles" THEN [ts[i] EXCEPT !.latest = FALSE] ELSE ts[i]]

LoadBranchesTask == [fn |-> "loadBranches", pc |-> "branch-a", branches |-> <<>>]

ErrorMessage(value) == [type |-> "error", value |-> value]

\* resolveWebviewView: the view is set and the script posts getBranches
SidebarInit ==
    /\ GitIdle
    /\ workspaceFolder \in BOOLEAN
    /\ repo \in Repositories
    /\ savedDefault = Undefined
    /\ toExt = <<[type |-> "getBranches"]>>
    /\ toWeb = <<>>
    /\ tasks = <<>>
    /\ latestSelect = [target |-> Undefined, outcome |-> "none"]
    /\ lastPostedBy = "none"
    /\ atRefresh = NeverRefreshed
    /\ currentFiles = <<>>
    /\ currentBranch = <<>>
    /\ currentDiffRef = <<>>
    /\ allBranches = <<>>
    /\ branchInput = <<>>
    /\ fileList = [kind |-> "empty"]
    /\ userActions = 0
    /\ refreshes = 0

\* onDidReceiveMessage, case 'getBranches': loadBranches up to its first await
RecvGetBranches ==
    /\ toExt # <<>>
    /\ Head(toExt).type = "getBranches"
    /\ Len(tasks) < MaxInFlight
    /\ toExt' = Tail(toExt)
    /\ tasks' = IF workspaceFolder THEN Append(tasks, LoadBranchesTask) ELSE tasks
    /\ UNCHANGED <<runVars, gitVars, workspaceFolder, repo, savedDefault, toWeb, historyVars,
                   webviewVars, userVars>>

\* onDidReceiveMessage, case 'selectBranch': loadFiles up to its first await
RecvSelectBranch ==
    /\ toExt # <<>>
    /\ Head(toExt).type = "selectBranch"
    /\ Len(tasks) < MaxInFlight
    /\ toExt' = Tail(toExt)
    /\ IF ~Falsy(Head(toExt).value) /\ workspaceFolder
       THEN /\ tasks' = Append(Superseded(tasks),
                               LoadFilesTask(Head(toExt).value, "select"))
            /\ latestSelect' = [target |-> Head(toExt).value, outcome |-> "pending"]
       ELSE UNCHANGED <<tasks, latestSelect>>
    /\ UNCHANGED <<runVars, gitVars, workspaceFolder, repo, savedDefault, toWeb, lastPostedBy,
                   atRefresh, webviewVars, userVars>>

\* onDidReceiveMessage, case 'saveDefaultBranch'
RecvSaveDefaultBranch ==
    /\ toExt # <<>>
    /\ Head(toExt).type = "saveDefaultBranch"
    /\ toExt' = Tail(toExt)
    /\ savedDefault' = IF ~Falsy(Head(toExt).value) THEN Head(toExt).value
                       ELSE savedDefault
    /\ UNCHANGED <<runVars, gitVars, workspaceFolder, repo, toWeb, tasks, historyVars, webviewVars, userVars>>

\* a loadFiles call ends: its task goes, its outcome is recorded, its
\* message is posted
EndLoadFiles(i, outcome, message) ==
    /\ tasks' = RemoveAt(tasks, i)
    /\ latestSelect' = IF tasks[i].latest THEN [latestSelect EXCEPT !.outcome = outcome]
                       ELSE latestSelect
    /\ lastPostedBy' = IF outcome = "files" THEN tasks[i].by ELSE lastPostedBy
    /\ UNCHANGED atRefresh
    /\ toWeb' = Append(toWeb, message)

\* loadFiles: rev-parse --show-toplevel settles
LoadFilesRevParse ==
    \E i \in 1..Len(tasks) :
        /\ tasks[i].fn = "loadFiles"
        /\ tasks[i].pc = "rev-parse"
        /\ LET proc == repo.revParse IN
           IF run(proc).state = "fulfilled"
           THEN /\ tasks' = [tasks EXCEPT ![i].pc = "merge-base",
                                          ![i].repoRoot = run(proc).value,
                                          ![i].cleanTarget = Trim(tasks[i].targetBranch),
                                          ![i].diffRef = Trim(tasks[i].targetBranch)]
                /\ UNCHANGED <<historyVars, toWeb>>
           ELSE EndLoadFiles(i, "error", ErrorMessage(run(proc).reason.message))
        /\ UNCHANGED <<runVars, gitVars, workspaceFolder, repo, savedDefault, toExt, webviewVars, userVars>>

\* loadFiles: merge-base <cleanTarget> HEAD settles
LoadFilesMergeBase ==
    \E i \in 1..Len(tasks) :
        /\ tasks[i].fn = "loadFiles"
        /\ tasks[i].pc = "merge-base"
        /\ LET proc == repo.mergeBase[tasks[i].cleanTarget] IN
           IF run(proc).state = "fulfilled"
           THEN /\ tasks' = [tasks EXCEPT ![i].pc = "diff",
                                          ![i].mergeBase = run(proc).value,
                                          ![i].diffRef = IF ~Falsy(run(proc).value)
                                                         THEN run(proc).value
                                                         ELSE tasks[i].diffRef]
                /\ UNCHANGED <<historyVars, toWeb>>
           ELSE EndLoadFiles(i, "error",
                             ErrorMessage(LoadFilesMergeBaseMessage(tasks[i].cleanTarget)))
        /\ UNCHANGED <<runVars, gitVars, workspaceFolder, repo, savedDefault, toExt, webviewVars, userVars>>

\* loadFiles: diff --name-status <diffRef> settles
LoadFilesDiff ==
    \E i \in 1..Len(tasks) :
        /\ tasks[i].fn = "loadFiles"
        /\ tasks[i].pc = "diff"
        /\ LET diffOutput == run(repo.diff)
               files == LoadFilesParse(tasks[i].repoRoot, diffOutput.value)
           IN IF diffOutput.state = "rejected"
              THEN EndLoadFiles(i, "error", ErrorMessage(diffOutput.reason.message))
              ELSE IF files.state = "rejected"
              THEN EndLoadFiles(i, "error", ErrorMessage(files.reason.message))
              ELSE EndLoadFiles(i, "files",
                                [type |-> "setFiles", files |-> files.value,
                                 targetBranch |-> tasks[i].targetBranch,
                                 diffRef |-> tasks[i].diffRef])
        /\ UNCHANGED <<runVars, gitVars, workspaceFolder, repo, savedDefault, toExt, webviewVars, userVars>>

\* loadBranches: branch -a --format=%(refname:short) settles
LoadBranchesList ==
    \E i \in 1..Len(tasks) :
        /\ tasks[i].fn = "loadBranches"
        /\ tasks[i].pc = "branch-a"
        /\ LET proc == repo.branchList IN
           IF run(proc).state = "fulfilled"
           THEN /\ tasks' = [tasks EXCEPT ![i].pc = "show-current",
                                          ![i].branches = ParseBranches(run(proc).value)]
                /\ UNCHANGED toWeb
           ELSE /\ tasks' = RemoveAt(tasks, i)
                /\ toWeb' = Append(toWeb, ErrorMessage(run(proc).reason.message))
        /\ UNCHANGED <<runVars, gitVars, workspaceFolder, repo, savedDefault, toExt, historyVars,
                       webviewVars, userVars>>

\* loadBranches: branch --show-current settles; the default is resolved, the
\* list sorted and posted, and loadFiles(defaultBranch) runs to its first await
LoadBranchesCurrent ==
    \E i \in 1..Len(tasks) :
        /\ tasks[i].fn = "loadBranches"
        /\ tasks[i].pc = "show-current"
        /\ LET proc == repo.showCurrent
               defaultBranch == ResolveDefault(savedDefault, tasks[i].branches)
               branches == SortBranches(tasks[i].branches, defaultBranch)
           IN IF run(proc).state = "fulfilled"
              THEN /\ toWeb' = Append(toWeb, [type |-> "setBranches",
                                              branches |-> branches,
                                              currentBranch |-> run(proc).value,
                                              defaultBranch |-> defaultBranch])
                   /\ tasks' = IF ~Falsy(defaultBranch)
                               THEN Append(RemoveAt(tasks, i),
                                           LoadFilesTask(defaultBranch, "auto"))
                               ELSE RemoveAt(tasks, i)
              ELSE /\ tasks' = RemoveAt(tasks, i)
                   /\ toWeb' = Append(toWeb, ErrorMessage(run(proc).reason.message))
        /\ UNCHANGED historyVars
        /\ UNCHANGED <<runVars, gitVars, workspaceFolder, repo, savedDefault, toExt, webviewVars, userVars>>

\* main.js updateBranches, on a 'setBranches' message
WebviewSetBranches ==
    /\ toWeb # <<>>
    /\ Head(toWeb).type = "setBranches"
    /\ toWeb' = Tail(toWeb)
    /\ allBranches' = Head(toWeb).branches
    /\ IF ~Falsy(currentBranch) /\ ArrayIncludes(Head(toWeb).branches, currentBranch)
       THEN /\ branchInput' = currentBranch
            /\ UNCHANGED toExt
       ELSE IF ~Falsy(Head(toWeb).defaultBranch) /\ Falsy(currentBranch)
       THEN /\ branchInput' = Head(toWeb).defaultBranch
            /\ toExt' = Append(toExt, [type |-> "selectBranch",
                                       value |-> Head(toWeb).defaultBranch])
       ELSE UNCHANGED <<branchInput, toExt>>
    /\ UNCHANGED <<runVars, gitVars, workspaceFolder, repo, savedDefault, tasks, historyVars, currentFiles,
                   currentBranch, currentDiffRef, fileList, userVars>>

\* what updateFiles renders into #file-list
RenderFiles(files) ==
    IF Len(files) = 0 THEN [kind |-> "No changes found."]
    ELSE [kind |-> "items",
          items |-> [i \in 1..Len(files) |->
                        [status |-> StatusLetter(files[i].status),
                         name |-> files[i].fileName,
                         path |-> files[i].directory]]]

\* main.js updateFiles, on a 'setFiles' message
WebviewSetFiles ==
    /\ toWeb # <<>>
    /\ Head(toWeb).type = "setFiles"
    /\ toWeb' = Tail(toWeb)
    /\ currentFiles' = Head(toWeb).files
    /\ currentBranch' = Head(toWeb).targetBranch
    /\ currentDiffRef' = Head(toWeb).diffRef
    /\ fileList' = RenderFiles(Head(toWeb).files)
    /\ UNCHANGED <<runVars, gitVars, workspaceFolder, repo, savedDefault, toExt, tasks, historyVars,
                   allBranches, branchInput, userVars>>

\* mutant: the error handler also resets what the webview holds
WebviewError_ResetsSelection ==
    /\ toWeb # <<>>
    /\ Head(toWeb).type = "error"
    /\ toWeb' = Tail(toWeb)
    /\ fileList' = [kind |-> "error", value |-> Head(toWeb).value]
    /\ currentFiles' = <<>>
    /\ currentBranch' = <<>>
    /\ currentDiffRef' = <<>>
    /\ UNCHANGED <<runVars, gitVars, workspaceFolder, repo, savedDefault, toExt, tasks,
                   historyVars, allBranches, branchInput, userVars>>

\* main.js, on an 'error' message
WebviewError ==
    /\ toWeb # <<>>
    /\ Head(toWeb).type = "error"
    /\ toWeb' = Tail(toWeb)
    /\ fileList' = [kind |-> "error", value |-> Head(toWeb).value]
    /\ UNCHANGED <<runVars, gitVars, workspaceFolder, repo, savedDefault, toExt, tasks, historyVars,
                   currentFiles, currentBranch, currentDiffRef, allBranches,
                   branchInput, userVars>>

\* the 'input' listener: the user edits the branch input
UserType ==
    \E text \in TypedTexts \ {branchInput} :
        /\ userActions < MaxUserActions
        /\ userActions' = userActions + 1
        /\ branchInput' = text
        /\ UNCHANGED <<runVars, gitVars, workspaceFolder, repo, savedDefault, toExt, toWeb, tasks, historyVars,
                       currentFiles, currentBranch, currentDiffRef, allBranches,
                       fileList, refreshes>>

\* the 'keydown' listener, Enter
UserEnter ==
    /\ userActions < MaxUserActions
    /\ ~Falsy(branchInput)
    /\ userActions' = userActions + 1
    /\ toExt' = Append(toExt, [type |-> "selectBranch", value |-> branchInput])
    /\ UNCHANGED <<runVars, gitVars, workspaceFolder, repo, savedDefault, toWeb, tasks, historyVars,
                   webviewVars, refreshes>>

\* the user opens the dropdown, filters it by what is in the input or by
\* what they type, and clicks one of the items filterBranches rendered
UserPickBranch ==
    \E i \in 1..Len(allBranches), filter \in {branchInput, <<>>} \cup TypedTexts :
        /\ userActions < MaxUserActions
        /\ Includes(ToLowerCase(allBranches[i]), ToLowerCase(filter))
        /\ userActions' = userActions + 1
        /\ branchInput' = allBranches[i]
        /\ toExt' = Append(toExt, [type |-> "selectBranch", value |-> allBranches[i]])
        /\ UNCHANGED <<runVars, gitVars, workspaceFolder, repo, savedDefault, toWeb, tasks, historyVars,
                       currentFiles, currentBranch, currentDiffRef, allBranches,
                       fileList, refreshes>>

\* the click listener of #refresh-btn
UserRefresh ==
    /\ refreshes < MaxRefreshes
    /\ refreshes' = refreshes + 1
    /\ toExt' = Append(toExt, [type |-> "getBranches"])
    /\ atRefresh' = [quiet |-> tasks = <<>> /\ toWeb = <<>> /\ toExt = <<>>,
                     branch |-> currentBranch, actions |-> userActions]
    /\ UNCHANGED <<runVars, gitVars, workspaceFolder, repo, savedDefault, toWeb, tasks,
                   latestSelect, lastPostedBy, webviewVars, userActions>>

\* the click listener of #save-default-btn
UserSaveDefault ==
    /\ userActions < MaxUserActions
    /\ ~Falsy(branchInput)
    /\ userActions' = userActions + 1
    /\ toExt' = Append(toExt, [type |-> "saveDefaultBranch", value |-> branchInput])
    /\ UNCHANGED <<runVars, gitVars, workspaceFolder, repo, savedDefault, toWeb, tasks, historyVars,
                   webviewVars, refreshes>>

\* the click listener of #clear-btn, shown while the input is not empty
UserClear ==
    /\ userActions < MaxUserActions
    /\ branchInput # <<>>
    /\ userActions' = userActions + 1
    /\ branchInput' = <<>>
    /\ UNCHANGED <<runVars, gitVars, workspaceFolder, repo, savedDefault, toExt, toWeb, tasks, historyVars,
                   currentFiles, currentBranch, currentDiffRef, allBranches,
                   fileList, refreshes>>

SidebarNext ==
    \/ RecvGetBranches
    \/ RecvSelectBranch
    \/ RecvSaveDefaultBranch
    \/ LoadFilesRevParse
    \/ LoadFilesMergeBase
    \/ LoadFilesDiff
    \/ LoadBranchesList
    \/ LoadBranchesCurrent
    \/ WebviewSetBranches
    \/ WebviewSetFiles
    \/ WebviewError
    \/ UserType
    \/ UserEnter
    \/ UserPickBranch
    \/ UserRefresh
    \/ UserSaveDefault
    \/ UserClear

SpecSidebar == SidebarInit /\ [][SidebarNext]_vars

----------------------------------------------------------------------------
(* GitService.getBranches and the branch list of the showDiff command *)

\* GitService.getBranches: Promise.all of the two queries, rejected with the
\* reason of whichever query is rejected first; the list is parsed by the
\* same split, trim and filter as in loadBranches
getBranches(procList, procCurrent, listFirst) ==
    LET branchesOutput == run(procList)
        current == run(procCurrent)
    IN IF branchesOutput.state = "rejected" /\ current.state = "rejected"
       THEN (IF listFirst THEN branchesOutput ELSE current)
       ELSE IF branchesOutput.state = "rejected" THEN branchesOutput
       ELSE IF current.state = "rejected" THEN current
       ELSE Fulfilled([current |-> current.value,
                       all |-> ParseBranches(branchesOutput.value)])

\* the showDiff command up to its quick pick: the branches are enumerated,
\* the default is resolved and the list is sorted in place; enumerated keeps
\* the list as getBranches returned it
ShowDiffPickList(savedDefaultBranch, procList, procCurrent, listFirst) ==
    LET r == getBranches(procList, procCurrent, listFirst)
        defaultBranch == ResolveDefault(savedDefaultBranch, r.value.all)
    IN IF r.state = "rejected" THEN r
       ELSE Fulfilled([currentBranch |-> r.value.current,
                       enumerated |-> r.value.all,
                       defaultBranch |-> defaultBranch,
                       branchList |-> SortBranches(r.value.all, defaultBranch)])

Feat == <<"f", "e", "a", "t">>
Other == <<"x">>

\* the lines of the branch listing: names, a name with white space around
\* it, the pointer of a remote, a blank line
BranchLines ==
    {Main, Master, Dev, <<" ">> \o Other, <<"o", "/">> \o HeadMarker, <<" ">>}

\* workspaceState.get('defaultBranch'): nothing saved, '', or a saved name
SavedDefaults == {Undefined, <<>>, Dev, Other, Feat}

CurrentBranchProcs == {Exited(0, Dev \o <<NL>>, <<>>), Exited(128, <<>>, ErrText)}

----------------------------------------------------------------------------
(* SpecGit: one call of a GitService operation on one subprocess outcome *)

\* the sidebar before its view is resolved
SidebarIdle ==
    /\ workspaceFolder = TRUE
    /\ repo = NotARepository
    /\ savedDefault = Undefined
    /\ toExt = <<>>
    /\ toWeb = <<>>
    /\ tasks = <<>>
    /\ latestSelect = [target |-> Undefined, outcome |-> "none"]
    /\ lastPostedBy = "none"
    /\ atRefresh = NeverRefreshed
    /\ currentFiles = <<>>
    /\ currentBranch = <<>>
    /\ currentDiffRef = <<>>
    /\ allBranches = <<>>
    /\ branchInput = <<>>
    /\ fileList = [kind |-> "empty"]
    /\ userActions = 0
    /\ refreshes = 0

GitInit == GitIdle /\ SidebarIdle

CallGetChangedFiles ==
    /\ gitCall.op = "idle"
    /\ UNCHANGED <<runVars, sidebarVars>>
    /\ \E n \in 0..MaxLines, failed \in BOOLEAN :
       \E ls \in [1..n -> DiffLines] :
       \E proc \in (IF failed THEN FailedProcs ELSE {Exited(0, Emit(ls), <<>>)}) :
        /\ failed => n = 0
        /\ gitCall' = [op |-> "getChangedFiles", repoRoot |-> RepoRoot,
                       lines |-> ls, proc |-> proc]
        /\ gitResult' = getChangedFiles(RepoRoot, proc)

CallGetMergeBase ==
    /\ gitCall.op = "idle"
    /\ UNCHANGED <<runVars, sidebarVars>>
    /\ \E target \in Refs, source \in Refs \cup {<<"H", "E", "A", "D">>},
          proc \in MergeBaseProcs :
        /\ gitCall' = [op |-> "getMergeBase", target |-> target,
                       source |-> source, proc |-> proc]
        /\ gitResult' = getMergeBase(target, source, proc)

CallGetFileContent ==
    /\ gitCall.op = "idle"
    /\ UNCHANGED <<runVars, sidebarVars>>
    /\ \E proc \in ShowProcs :
        /\ gitCall' = [op |-> "getFileContent", proc |-> proc]
        /\ gitResult' = getFileContent(proc)

CallProvideTextDocumentContent ==
    /\ gitCall.op = "idle"
    /\ UNCHANGED <<runVars, sidebarVars>>
    /\ \E ref \in {Null, <<>>, Commit}, cwd \in {Null, RepoRoot}, proc \in ShowProcs :
        /\ gitCall' = [op |-> "provideTextDocumentContent", ref |-> ref,
                       cwd |-> cwd, proc |-> proc]
        /\ gitResult' = provideTextDocumentContent(ref, cwd, proc)

\* the showDiff command is run up to its quick pick
CallShowDiffPickList ==
    /\ gitCall.op = "idle"
    /\ UNCHANGED <<runVars, sidebarVars>>
    /\ \E n \in 0..MaxLines, failed \in BOOLEAN, listFirst \in BOOLEAN :
       \E ls \in [1..n -> BranchLines] :
       \E procList \in (IF failed THEN {Exited(1, <<>>, ErrText)}
                         ELSE {Exited(0, Emit([i \in 1..n |-> <<ls[i]>>]), <<>>)}),
          procCurrent \in CurrentBranchProcs, saved \in SavedDefaults :
        /\ failed => n = 0
        /\ listFirst => (failed /\ procCurrent.code # 0)
        /\ gitCall' = [op |-> "showDiff", savedDefault |-> saved, lines |-> ls,
                       procList |-> procList, procCurrent |-> procCurrent]
        /\ gitResult' = ShowDiffPickList(saved, procList, procCurrent, listFirst)

GitNext ==
    \/ CallShowDiffPickList
    \/ CallGetChangedFiles
    \/ CallGetMergeBase
    \/ CallGetFileContent
    \/ CallProvideTextDocumentContent

SpecGit == GitInit /\ [][GitNext]_vars

----------------------------------------------------------------------------
(* SpecRun: one call of GitService.run, event by event *)

\* the bytes of a two-byte UTF-8 character, the character, and U+FFFD
LeadByte == "c3"
ContByte == "a9"
EAcute == "e9"
Replacement == "fffd"

\* data.toString(): the bytes of one chunk decoded as UTF-8 on their own
RECURSIVE Decode(_)
Decode(bytes) ==
    IF bytes = <<>> THEN <<>>
    ELSE IF Head(bytes) = LeadByte
         THEN IF Len(bytes) >= 2 /\ bytes[2] = ContByte
              THEN <<EAcute>> \o Decode(SubSeq(bytes, 3, Len(bytes)))
              ELSE <<Replacement>> \o Decode(Tail(bytes))
    ELSE IF Head(bytes) = ContByte THEN <<Replacement>> \o Decode(Tail(bytes))
    ELSE <<Head(bytes)>> \o Decode(Tail(bytes))

\* mutant: the accumulator keeps the last chunk only
Accumulate_KeepsLast(buffer, data) == Decode(data)

\* stdout += data.toString()
Accumulate(buffer, data) == buffer \o Decode(data)

\* resolve or reject: a promise already settled stays as it is
Settle(p, outcome) == IF p.state = "pending" THEN outcome ELSE p

\* the chunks a stream delivers
StdoutChunks == {<<"x">>, <<NL>>, <<LeadByte>>, <<ContByte>>, <<LeadByte, ContByte>>}
StderrChunks == {<<"f">>, <<"a">>}

ChunksOf(S) == UNION {[1..n -> S] : n \in 0..MaxChunks}

\* a subprocess that ran: its pending chunks, its exit code, and all it
\* writes (outAll, errAll are history)
Ran(code, out, err) ==
    [spawnError |-> FALSE, code |-> code, out |-> out, err |-> err,
     outAll |-> out, errAll |-> err, closed |-> FALSE, errored |-> FALSE]

\* a subprocess that could not be spawned: 'error' is emitted, and 'close'
\* with a negative code
NotSpawned ==
    [spawnError |-> TRUE, code |-> -2, out |-> <<>>, err |-> <<>>,
     outAll |-> <<>>, errAll |-> <<>>, closed |-> FALSE, errored |-> FALSE]

ExitCodes == {0, 1}

\* run has spawned the child and returned the pending promise
RunInit ==
    /\ child \in {Ran(code, out, err) :
                      code \in ExitCodes, out \in ChunksOf(StdoutChunks),
                      err \in ChunksOf(StderrChunks)} \cup {NotSpawned}
    /\ stdout = <<>>
    /\ stderr = <<>>
    /\ promise = [state |-> "pending"]
    /\ outcomes = <<>>
    /\ CallIdle
    /\ SidebarIdle

\* child.stdout.on('data')
StdoutData ==
    /\ child.out # <<>>
    /\ stdout' = Accumulate(stdout, Head(child.out))
    /\ child' = [child EXCEPT !.out = Tail(child.out)]
    /\ UNCHANGED <<stderr, promise, outcomes, gitVars, sidebarVars>>

\* child.stderr.on('data')
StderrData ==
    /\ child.err # <<>>
    /\ stderr' = Accumulate(stderr, Head(child.err))
    /\ child' = [child EXCEPT !.err = Tail(child.err)]
    /\ UNCHANGED <<stdout, promise, outcomes, gitVars, sidebarVars>>

\* child.on('close'): emitted once the process has ended and both streams
\* have been read to their end
Close ==
    /\ ~child.closed
    /\ child.out = <<>>
    /\ child.err = <<>>
    /\ child' = [child EXCEPT !.closed = TRUE]
    /\ promise' = Settle(promise, run(Exited(child.code, stdout, stderr)))
    /\ outcomes' = IF promise.state = "pending" THEN Append(outcomes, promise')
                   ELSE outcomes
    /\ UNCHANGED <<stdout, stderr, gitVars, sidebarVars>>

\* child.on('error'): the process could not be spawned
ErrorEvent ==
    /\ child.spawnError
    /\ ~child.errored
    /\ child' = [child EXCEPT !.errored = TRUE]
    /\ promise' = Settle(promise, run(SpawnFailed))
    /\ outcomes' = IF promise.state = "pending" THEN Append(outcomes, promise')
                   ELSE outcomes
    /\ UNCHANGED <<stdout, stderr, gitVars, sidebarVars>>

RunNext ==
    \/ StdoutData
    \/ StderrData
    \/ Close
    \/ ErrorEvent

SpecRun == RunInit /\ [][RunNext]_vars

----------------------------------------------------------------------------
(* Claims about GitService, checked under SpecGit *)

\* the lines git emitted that are not blank, as their fields
EmittedNonBlank == SelectSeq(gitCall.lines, LAMBDA f : f # << <<" ">> >>)

IsRenameOrCopy(fields) == fields[1][1] \in {"R", "C"}

\* three fields for a rename or copy line, two for any other
ExpectedFieldCount(fields) == IF IsRenameOrCopy(fields) THEN 3 ELSE 2

WellFormedOutput ==
    \A i \in 1..Len(EmittedNonBlank) :
        Len(EmittedNonBlank[i]) = ExpectedFieldCount(EmittedNonBlank[i])

ProcFailed(proc) == proc.spawnError \/ proc.code # 0

DiffSucceeded == gitCall.op = "getChangedFiles" /\ ~ProcFailed(gitCall.proc)

\* C1 (as claimed): whenever some non-blank line of the diff output has an
\* unexpected field count, getChangedFiles fails instead of returning a list.
C1_MalformedLineFails ==
    (DiffSucceeded /\ ~WellFormedOutput) => gitResult.state = "rejected"

\* C2 (as claimed): in every list getChangedFiles returns for a well-formed
\* output, a record has originalPath set exactly when its status begins with
\* R or C, and a copy line yields path = new and originalPath = old.
C2_OriginalPathIffRenameOrCopy ==
    (DiffSucceeded /\ WellFormedOutput /\ gitResult.state = "fulfilled") =>
        \A i \in 1..Len(gitResult.value) :
            /\ (gitResult.value[i].originalPath # Undefined)
                   <=> (gitResult.value[i].status[1] \in {"R", "C"})
            /\ EmittedNonBlank[i][1][1] = "C" =>
                   /\ gitResult.value[i].filePath = EmittedNonBlank[i][3]
                   /\ gitResult.value[i].originalPath = EmittedNonBlank[i][2]

\* C5: getFileContent never fails, and returns the empty string whenever the
\* subprocess fails (nonzero exit or spawn failure); so does the content
\* provider that calls it.
C5_GetFileContentNeverFails ==
    gitCall.op \in {"getFileContent", "provideTextDocumentContent"} =>
        /\ gitResult.state = "fulfilled"
        /\ ProcFailed(gitCall.proc) => gitResult.value = <<>>

C5_Witness ==
    /\ gitCall.op = "getFileContent"
    /\ ~gitCall.proc.spawnError
    /\ gitCall.proc.code # 0
    /\ gitResult = Fulfilled(<<>>)

\* C6: when the merge-base command fails, getMergeBase fails with a message
\* that quotes exactly the requested target; when it succeeds, getMergeBase
\* returns what run resolved (the trimmed stdout), unchanged.
C6_MergeBaseFailureNamesTarget ==
    gitCall.op = "getMergeBase" =>
        IF ProcFailed(gitCall.proc)
        THEN /\ gitResult.state = "rejected"
             /\ LET m == gitResult.reason.message
                IN SubSeq(m, 2, Len(m) - 1) = gitCall.target
        ELSE gitResult = Fulfilled(Trim(gitCall.proc.stdout))

C6_Witness ==
    /\ gitCall.op = "getMergeBase"
    /\ ProcFailed(gitCall.proc)
    /\ gitCall.target # gitCall.source
    /\ gitResult.state = "rejected"

\* C7: an empty diff output gives the empty list and no failure; a failed
\* diff command gives a failure, never the empty list.
C7_EmptyIsNotFailure ==
    gitCall.op = "getChangedFiles" =>
        /\ (~ProcFailed(gitCall.proc) /\ gitCall.proc.stdout = <<>>)
               => gitResult = Fulfilled(<<>>)
        /\ ProcFailed(gitCall.proc) => gitResult.state = "rejected"

C7_Witness ==
    /\ DiffSucceeded
    /\ gitCall.proc.stdout = <<>>
    /\ gitResult = Fulfilled(<<>>)

\* C8: for a well-formed output the result has one record per non-blank line,
\* and the i-th record is the one of the i-th non-blank line (its status and
\* its path are fields of that line).
C8_OneRecordPerLineInOrder ==
    (DiffSucceeded /\ WellFormedOutput) =>
        /\ gitResult.state = "fulfilled"
        /\ Len(gitResult.value) = Len(EmittedNonBlank)
        /\ \A i \in 1..Len(EmittedNonBlank) :
            /\ gitResult.value[i].status = EmittedNonBlank[i][1]
            /\ \E k \in 2..Len(EmittedNonBlank[i]) :
                   gitResult.value[i].filePath = EmittedNonBlank[i][k]

C8_Witness ==
    /\ DiffSucceeded
    /\ gitResult.state = "fulfilled"
    /\ Len(gitResult.value) = 3
    /\ gitResult.value[1].status = <<"A">>
    /\ gitResult.value[2].status = <<"D">>
    /\ gitResult.value[3].status = <<"M">>

\* C9: every rename line R<score> old new of a returned list yields a record
\* whose class is R whatever the score, whose path is the third field and
\* whose originalPath is the second field.
C9_RenameLine ==
    (DiffSucceeded /\ gitResult.state = "fulfilled") =>
        \A i \in 1..Len(EmittedNonBlank) :
            LET f == EmittedNonBlank[i]
            IN (f[1][1] = "R" /\ Len(f) = 3) =>
                /\ StatusLetter(gitResult.value[i].status) = "R"
                /\ gitResult.value[i].filePath = f[3]
                /\ gitResult.value[i].originalPath = f[2]

C9_Witness ==
    /\ DiffSucceeded
    /\ gitResult.state = "fulfilled"
    /\ \E i \in 1..Len(gitResult.value) :
        /\ gitResult.value[i].status = <<"R", "1", "0", "0">>
        /\ gitResult.value[i].filePath = PathB
        /\ gitResult.value[i].originalPath = PathA

\* C10: every two-field line whose status is neither a rename nor a copy
\* yields a record with that status, the second field as its path and no
\* originalPath.
C10_TwoFieldLine ==
    (DiffSucceeded /\ gitResult.state = "fulfilled") =>
        \A i \in 1..Len(EmittedNonBlank) :
            LET f == EmittedNonBlank[i]
            IN (~IsRenameOrCopy(f) /\ Len(f) = 2) =>
                /\ gitResult.value[i].status = f[1]
                /\ gitResult.value[i].filePath = f[2]
                /\ gitResult.value[i].originalPath = Undefined

C10_Witness ==
    /\ DiffSucceeded
    /\ gitResult.state = "fulfilled"
    /\ \E i \in 1..Len(gitResult.value) :
        /\ gitResult.value[i].status = <<"M">>
        /\ gitResult.value[i].filePath = PathA
        /\ gitResult.value[i].originalPath = Undefined

----------------------------------------------------------------------------
(* Claims about the sidebar, checked under SpecSidebar *)

\* the merge-base query loadFiles makes for a target, as run settles it
MergeBaseQuery(targetBranch) == run(repo.mergeBase[Trim(targetBranch)])

\* C3: no name-status diff is run and no file list is delivered unless the
\* merge-base query for the target succeeded, and the ref of every delivered
\* file list is the commit that query returned, never the literal target.
C3_FileListDiffedAgainstMergeBase ==
    /\ \A i \in 1..Len(tasks) :
        (tasks[i].fn = "loadFiles" /\ tasks[i].pc = "diff") =>
            MergeBaseQuery(tasks[i].targetBranch).state = "fulfilled"
    /\ \A i \in 1..Len(toWeb) :
        toWeb[i].type = "setFiles" =>
            /\ MergeBaseQuery(toWeb[i].targetBranch).state = "fulfilled"
            /\ toWeb[i].diffRef = MergeBaseQuery(toWeb[i].targetBranch).value
            /\ toWeb[i].diffRef # Trim(toWeb[i].targetBranch)

\* C4: once every loadFiles call has finished and every message has been
\* handled, if the latest selectBranch request delivered a file list and the
\* last file list delivered came from a selectBranch request, the webview
\* shows the target of the latest request.
C4_LatestSelectionShown ==
    (/\ tasks = <<>>
     /\ toWeb = <<>>
     /\ toExt = <<>>
     /\ latestSelect.outcome = "files"
     /\ lastPostedBy = "select") =>
        currentBranch = latestSelect.target

----------------------------------------------------------------------------
(* Claims about the branch list, checked under SpecGit *)

PickListShown == gitCall.op = "showDiff" /\ gitResult.state = "fulfilled"

\* the lines git printed, trimmed, without the blank ones and the ones that
\* contain HEAD
PrintedBranches ==
    SelectSeq([i \in 1..Len(gitCall.lines) |-> Trim(gitCall.lines[i])],
              LAMBDA b : b # <<>> /\ ~Includes(b, HeadMarker))

Count(seq, x) == Cardinality({i \in 1..Len(seq) : seq[i] = x})

\* dictionary order by the collation rank of the characters
LexLeq(a, b) ==
    \/ Len(a) <= Len(b) /\ SubSeq(b, 1, Len(a)) = a
    \/ \E k \in 1..Len(a) :
        /\ k <= Len(b)
        /\ SubSeq(a, 1, k - 1) = SubSeq(b, 1, k - 1)
        /\ CharRank(a[k]) < CharRank(b[k])

C12_EnumerationFilters ==
    PickListShown =>
        /\ \A i \in 1..Len(gitResult.value.enumerated) :
            /\ Trim(gitResult.value.enumerated[i]) # <<>>
            /\ ~Includes(gitResult.value.enumerated[i], HeadMarker)
        /\ gitResult.value.enumerated = PrintedBranches

C12_Witness ==
    /\ PickListShown
    /\ gitCall.lines = << <<" ">> \o Other, <<"o", "/">> \o HeadMarker, <<" ">> >>
    /\ gitResult.value.enumerated = <<Other>>

\* C13 (as claimed): no name occurs twice in the enumerated list.
C13_NoDuplicateBranches ==
    PickListShown =>
        \A i, j \in 1..Len(gitResult.value.enumerated) :
            i # j => gitResult.value.enumerated[i] # gitResult.value.enumerated[j]

\* C14: the presented list is a permutation of the enumerated list, the
\* resolved default comes first, and the branches other than the default
\* follow it in dictionary order.
C14_DefaultFirstThenLexicographic ==
    PickListShown =>
        LET bs == gitResult.value.enumerated
            shown == gitResult.value.branchList
            d == gitResult.value.defaultBranch
        IN /\ Len(shown) = Len(bs)
           /\ \A i \in 1..Len(bs) : Count(shown, bs[i]) = Count(bs, bs[i])
           /\ bs # <<>> => shown[1] = d
           /\ \A i, j \in 1..Len(shown) :
               i < j =>
                   /\ shown[j] = d => shown[i] = d
                   /\ (shown[i] # d /\ shown[j] # d) => LexLeq(shown[i], shown[j])

C14_Witness ==
    /\ PickListShown
    /\ gitCall.savedDefault = Other
    /\ gitResult.value.enumerated = <<Main, Other, Dev>>
    /\ gitResult.value.branchList = <<Other, Dev, Main>>

----------------------------------------------------------------------------
(* Claims about GitService.run, checked under SpecRun *)

RECURSIVE DecodeAll(_)
\* the text of a stream: its chunks decoded one by one, in arrival order
DecodeAll(chunks) ==
    IF chunks = <<>> THEN <<>> ELSE Decode(Head(chunks)) \o DecodeAll(Tail(chunks))

Exit(code) == ~child.spawnError /\ child.closed /\ child.code = code

\* C15: after a nonzero exit the call has failed with an error carrying the
\* captured stderr text, or the captured stdout text when stderr is empty;
\* after an exit with code 0 the call has succeeded.
C15_RunOutcomeFollowsExitCode ==
    /\ Exit(0) => promise.state = "fulfilled"
    /\ Exit(1) =>
        /\ promise.state = "rejected"
        /\ promise.reason.message =
               <<"Git command failed: ">> \o
                   (IF DecodeAll(child.errAll) # <<>> THEN DecodeAll(child.errAll)
                    ELSE DecodeAll(child.outAll))

C15_Witness ==
    /\ Exit(1)
    /\ child.errAll = <<>>
    /\ child.outAll = << <<"x">>, <<NL>> >>
    /\ promise = Rejected(Error(<<"Git command failed: ", "x", NL>>))

\* C16: the caller observes at most one outcome, none before the child has
\* closed or failed to spawn, and a successful result is the trimmed text
\* of all stdout chunks in arrival order.
C16_OneOutcomeAfterExit ==
    /\ Len(outcomes) <= 1
    /\ promise.state = "pending" <=> outcomes = <<>>
    /\ promise.state # "pending" =>
        /\ child.closed \/ child.errored
        /\ outcomes = <<promise>>
    /\ promise.state = "fulfilled" =>
        /\ child.out = <<>>
        /\ promise.value = Trim(DecodeAll(child.outAll))

C16_Witness ==
    /\ child.spawnError
    /\ child.closed
    /\ child.errored
    /\ Len(outcomes) = 1
    /\ promise.state = "rejected"

----------------------------------------------------------------------------
(* Claims about errors and refresh in the sidebar, checked under SpecSidebar *)

Quiescent == tasks = <<>> /\ toWeb = <<>> /\ toExt = <<>>

\* the webview handles an 'error' message in this step
ErrorHandled == toWeb # <<>> /\ Head(toWeb).type = "error" /\ toWeb' = Tail(toWeb)

\* the provider receives a getBranches or a selectBranch message in this
\* step, in an open workspace
LoadRequested ==
    /\ workspaceFolder
    /\ toExt # <<>>
    /\ toExt' = Tail(toExt)
    /\ \/ Head(toExt).type = "getBranches"
       \/ Head(toExt).type = "selectBranch" /\ ~Falsy(Head(toExt).value)

\* C17: handling an 'error' message changes none of allBranches, the branch
\* input, currentBranch, currentFiles and currentDiffRef, only what the file
\* list shows; and with an error on display every getBranches or selectBranch
\* message the provider receives still starts its load.
C17_ErrorLeavesStateDisplayable ==
    [][/\ ErrorHandled =>
           /\ UNCHANGED <<allBranches, branchInput, currentBranch, currentFiles,
                          currentDiffRef>>
           /\ fileList'.kind = "error"
       /\ (fileList.kind = "error" /\ LoadRequested) =>
           /\ Len(tasks') = Len(tasks) + 1
           /\ tasks'[Len(tasks')].fn =
                  (IF Head(toExt).type = "getBranches" THEN "loadBranches"
                   ELSE "loadFiles")]_vars

C17_Witness ==
    /\ fileList.kind = "error"
    /\ allBranches # <<>>
    /\ currentBranch = Main
    /\ currentFiles # <<>>
    /\ branchInput = Dev
    /\ \E i \in 1..Len(tasks) : tasks[i].fn = "loadBranches"

\* C18 (as claimed): when Refresh is clicked while the webview shows the
\* comparison for a branch and nothing is in flight, and the user does
\* nothing more, then once everything the refresh started has finished and
\* the branch is still listed, the branch input and currentBranch are still
\* that branch.
C18_RefreshKeepsSelection ==
    (/\ Quiescent
     /\ atRefresh.quiet
     /\ ~Falsy(atRefresh.branch)
     /\ atRefresh.actions = userActions
     /\ ArrayIncludes(allBranches, atRefresh.branch)) =>
        /\ branchInput = atRefresh.branch
        /\ currentBranch = atRefresh.branch

====
